---- MODULE Spec2Model ----
(***************************************************************************)
(* Model of the sd3-ui client (src/app/page.tsx): the Home component's     *)
(* job store (images), working set (pendingJobs), the localStorage mirror, *)
(* the polling interval with its asynchronous rounds, and the submission   *)
(* flow.  One step of the model is one run-to-completion turn of the       *)
(* browser's event loop together with the React commit and the effects it  *)
(* triggers, so every state is one in which effects have settled.          *)
(***************************************************************************)
EXTENDS Integers, Sequences, FiniteSets, Bags, TLC

VARIABLES
    phase,        \* "unloaded" | "mounted" | "crashed" (render threw)
    images,       \* useState<GeneratedImage[]>
    pendingJobs,  \* useState<string[]>
    storage,      \* localStorage item 'generated-images'
    timers,       \* scheduled setInterval callbacks, each with the pendingJobs it closed over
    rounds,       \* bag of the runs of the interval callback that are awaiting a fetch
    subs,         \* bag of the runs of generateImage that are awaiting /api/generate
    now,          \* the last value Date.now() returned
    issued,       \* job ids the gateway has handed out
    results,      \* gateway: the terminal body it has reported for a job, by job id
    output,       \* what the last turn put out: a console.error line, an alert
    link          \* the anchor downloadImage clicked last, if any

vars == <<phase, images, pendingJobs, storage, timers, rounds, subs,
          now, issued, results, output, link>>

----------------------------------------------------------------------------
(* Bounds of the model *)

MaxJobs == 2        \* submissions that are in flight or were accepted by the gateway
MaxRounds == 2      \* interval callbacks in flight at once
MaxTime == 1        \* Date.now() ranges over 0..MaxTime
MaxAffix == 2       \* length of the varied head and tail of a downloaded record's prompt

\* The well-formed ids the gateway hands out, in this order (ids are opaque)
WellFormedIds == <<"j1", "j2">>

\* What the gateway may answer as "job-id": the next well-formed id, or the
\* string 'undefined' that the polling loop guards against; each at most once.
GatewayIds(given) ==
    {WellFormedIds[i] : i \in {k \in DOMAIN WellFormedIds :
                                 /\ WellFormedIds[k] \notin given
                                 /\ \A m \in 1..(k - 1) : WellFormedIds[m] \in given}}
    \cup ({"undefined"} \ given)

\* Text the input field (the prompt state) can hold when generateImage is
\* called, as sequences of characters.
PromptInputs == {<<>>, <<" ">>, <<"c", " ">>}

Whitespace == {" ", "\t", "\n"}

\* The value of an object key that was assigned undefined.
Undefined == "<undefined>"

----------------------------------------------------------------------------
(* Sequences *)

Range(s) == {s[i] : i \in DOMAIN s}

RECURSIVE SelectSeqBy(_, _)
\* Array.prototype.filter with the predicate given as the set of kept values
SelectSeqBy(s, keep) ==
    IF s = <<>> THEN <<>>
    ELSE IF Head(s) \in keep THEN <<Head(s)>> \o SelectSeqBy(Tail(s), keep)
         ELSE SelectSeqBy(Tail(s), keep)

----------------------------------------------------------------------------
(* String.prototype.trim *)

RECURSIVE TrimStart(_)
TrimStart(s) ==
    IF s = <<>> THEN s
    ELSE IF Head(s) \in Whitespace THEN TrimStart(Tail(s)) ELSE s

RECURSIVE TrimEnd(_)
TrimEnd(s) ==
    IF s = <<>> THEN s
    ELSE IF s[Len(s)] \in Whitespace THEN TrimEnd(SubSeq(s, 1, Len(s) - 1)) ELSE s

\* No trimming: the guard would be !prompt
Trim_Nothing(s) == s

Trim(s) == TrimEnd(TrimStart(s))

----------------------------------------------------------------------------
(* GeneratedImage records.  A record is a function from the keys the       *)
(* object has to their values; url and error may be present with the value *)
(* undefined, completionTime is either absent or a number.                 *)

Fields == {"id", "prompt", "status", "url", "error", "startTime", "completionTime"}

\* The field holds a value (the key exists and is not undefined).
Present(img, f) ==
    /\ f \in DOMAIN img
    /\ (f \in {"url", "error"} => img[f] # Undefined)

\* { ...img, <key>: <value>, ... } : object spread followed by assignments
Spread(img, extra) ==
    [f \in DOMAIN img \cup DOMAIN extra |->
        IF f \in DOMAIN extra THEN extra[f] ELSE img[f]]

StoreIds(s) == {s[i].id : i \in DOMAIN s}

----------------------------------------------------------------------------
(* JSON.stringify / JSON.parse of the store, and localStorage *)

\* The item as localStorage.getItem returns it.  kind is "null" (no item),
\* "empty" (the empty string), "garbage" (text JSON.parse rejects), "nonarray"
\* (valid JSON that is not an array) or "array"; json is the parsed value of an
\* "array" text.
NoItem == [kind |-> "null", json |-> <<>>]
EmptyText == [kind |-> "empty", json |-> <<>>]
Garbage == [kind |-> "garbage", json |-> <<>>]
NotAList == [kind |-> "nonarray", json |-> <<>>]

\* A serialisation that writes only the fields a new record has
StringifyObject_NoOutcome(img) ==
    [f \in {g \in DOMAIN img : Present(img, g)} \ {"url", "error", "completionTime"} |-> img[f]]

\* JSON.stringify of one object: keys whose value is undefined are omitted
StringifyObject(img) ==
    [f \in {g \in DOMAIN img : Present(img, g)} |-> img[f]]

JSONstringify(imgs) ==
    [kind |-> "array", json |-> [i \in DOMAIN imgs |-> StringifyObject(imgs[i])]]

\* JSON.parse of a text that parses
JSONparse(item) == item.json

\* saved ? JSON.parse(saved) : []
InitialImages(saved) ==
    IF saved.kind \in {"null", "empty"} THEN <<>> ELSE JSONparse(saved)

\* The first render throws: JSON.parse raises a SyntaxError in the useState
\* initialiser, or images.map is not a function in the JSX.
StartupThrows(saved) == saved.kind \in {"garbage", "nonarray"}

\* useEffect(() => localStorage.setItem(...), [images])
SaveEffect(imgs) == JSONstringify(imgs)

----------------------------------------------------------------------------
(* The polling effect: cleanup of the previous run, then a new interval    *)
(* when pendingJobs is not empty.                                          *)

\* An effect without cleanup
EffectCleanup_None(ts) == ts

\* return () => clearInterval(intervalId): the previous run's interval, the
\* one scheduled last, is cancelled.
EffectCleanup(ts) ==
    IF ts = <<>> THEN ts ELSE SubSeq(ts, 1, Len(ts) - 1)

PollingEffect(ts, pj) ==
    IF Len(pj) = 0 THEN EffectCleanup(ts) ELSE Append(EffectCleanup(ts), pj)

----------------------------------------------------------------------------
(* console.error and the replies of the two proxy endpoints *)

NoOutput == "none"
\* console.error(`Error checking status for job ${jobId}:`, error)
StatusLog == "console: Error checking status for job"
\* console.error("Error generating image:", error); alert("Failed to generate image. ...")
GenerateAlert == "alert: Failed to generate image"

\* How a fetch can fail before a body is read: fetch rejects, response.ok is
\* false, response.json() rejects.
FailKinds == {"throw", "notok", "badbody"}

Failure(k) == [kind |-> k, data |-> [none |-> ""]]
Body(d) == [kind |-> "json", data |-> d]

\* data.<key> of a parsed body: undefined when the key is missing
Field(data, k) == IF k \in DOMAIN data THEN data[k] ELSE Undefined

\* Bodies of GET /api/results/<id>: the job is not done, done with and without
\* the url key, failed.  (A failed job's body without the message key is to
\* error what the body without url is to url.)
StatusBodies ==
    { [status |-> "PENDING"],
      [status |-> "SUCCESS", url |-> "u1"], [status |-> "SUCCESS"],
      [status |-> "ERROR", message |-> "m1"] }

TerminalBodies == {d \in StatusBodies : d.status \in {"SUCCESS", "ERROR"}}

\* How a proxy route's call of the backend ends: fetch rejects, or a response
\* arrives with a status and a body that parses to data or does not parse.
Unreachable ==
    [kind |-> "unreachable", status |-> 0, parses |-> FALSE, data |-> [none |-> ""]]
BackendResponse(st, parses, d) ==
    [kind |-> "response", status |-> st, parses |-> parses, data |-> d]
BackendOk(d) == BackendResponse(200, TRUE, d)

BackendFailures ==
    { Unreachable,
      BackendResponse(404, TRUE, [detail |-> "Not Found"]),
      BackendResponse(500, FALSE, [none |-> ""]),
      BackendResponse(200, FALSE, [none |-> ""]) }

\* What the backend can answer to GET /results/<jobId> whatever the job
BackendNoOutcome == BackendFailures \cup {BackendOk(d) : d \in StatusBodies \ TerminalBodies}
BackendOutcomes == {BackendOk(d) : d \in TerminalBodies}

\* What the backend can answer to GET /results/<jobId>: a failure, PENDING, or
\* the job's outcome; a job's outcome does not change once it was reported.
BackendResults(jobId) ==
    BackendNoOutcome
    \cup (IF jobId \in DOMAIN results THEN {BackendOk(results[jobId])} ELSE BackendOutcomes)

\* The try block of a route throws: fetch rejected, !response.ok, or
\* response.json() rejected
RouteThrows(backend) ==
    \/ backend.kind = "unreachable"
    \/ backend.status < 200 \/ backend.status > 299
    \/ ~backend.parses

\* A results route without the response.ok check
ResultsGET_NoOkCheck(backend) ==
    IF backend.kind = "unreachable" \/ ~backend.parses
    THEN [status |-> 500, body |-> [error |-> "Failed to fetch results"]]
    ELSE [status |-> 200, body |-> backend.data]

\* GET of /api/results/[jobId]: every throw inside the try block ends in the
\* catch block's response.  (jobId is a path segment, always a string.)
ResultsGET(backend) ==
    IF RouteThrows(backend)
    THEN [status |-> 500, body |-> [error |-> "Failed to fetch results"]]
    ELSE [status |-> 200, body |-> backend.data]

\* POST of /api/generate
GeneratePOST(backend) ==
    IF RouteThrows(backend)
    THEN [status |-> 500, body |-> [error |-> "Failed to generate image"]]
    ELSE [status |-> 200, body |-> backend.data]

\* The client's view of a proxy response: !response.ok throws, otherwise
\* response.json() is the body
ClientReply(response) ==
    IF response.status < 200 \/ response.status > 299
    THEN Failure("notok") ELSE Body(response.body)

\* The client's fetch or json() rejects
ClientFailures == {Failure(k) : k \in FailKinds \ {"notok"}}

\* What the client's query for jobId can end with: its own fetch or json()
\* rejects, or the proxy's response arrives
StatusReplies(jobId) ==
    ClientFailures
    \cup {ClientReply(ResultsGET(b)) : b \in BackendNoOutcome}
    \cup (IF jobId \in DOMAIN results
          THEN {ClientReply(ResultsGET(BackendOk(results[jobId])))}
          ELSE {ClientReply(ResultsGET(b)) : b \in BackendOutcomes})

\* Bodies of POST /api/generate; jobId stands for the key "job-id".  The
\* gateway issues each id once.
GenerateBodies ==
    { [detail |-> "x"], [jobId |-> ""] }
    \cup {[jobId |-> j] : j \in GatewayIds(issued)}

BackendGenerates == BackendFailures \cup {BackendOk(d) : d \in GenerateBodies}

GenerateReplies ==
    ClientFailures \cup {ClientReply(GeneratePOST(b)) : b \in BackendGenerates}

----------------------------------------------------------------------------
(* The interval callback *)

\* A guard that knows the empty id only
Malformed_OnlyEmpty(jobId) == jobId = ""

\* !jobId || jobId === 'undefined'
Malformed(jobId) == jobId = "" \/ jobId = "undefined"

RECURSIVE SkipMalformed(_, _)
\* The for loop over the ids left, up to the next fetch: malformed ids are
\* pushed to completedJobs without a query.  jobs is what is left to iterate,
\* its head the id whose query the round awaits.
SkipMalformed(jobs, done) ==
    IF jobs = <<>> THEN [jobs |-> jobs, completedJobs |-> done]
    ELSE IF Malformed(Head(jobs)) THEN SkipMalformed(Tail(jobs), Append(done, Head(jobs)))
         ELSE [jobs |-> jobs, completedJobs |-> done]

\* MarkComplete as an upsert: a record is created when none has the id
MarkComplete_Upsert(prev, jobId, data, t) ==
    IF \E i \in DOMAIN prev : prev[i].id = jobId
    THEN [i \in DOMAIN prev |->
            IF prev[i].id = jobId
            THEN Spread(prev[i], [status |-> "complete", url |-> Field(data, "url"),
                                  completionTime |-> t])
            ELSE prev[i]]
    ELSE Append(prev, [id |-> jobId, status |-> "complete", url |-> Field(data, "url"),
                       completionTime |-> t])

\* prev.map(img => img.id === jobId ? {...img, status: "complete", url, completionTime} : img)
MarkComplete(prev, jobId, data, t) ==
    [i \in DOMAIN prev |->
        IF prev[i].id = jobId
        THEN Spread(prev[i], [status |-> "complete", url |-> Field(data, "url"),
                              completionTime |-> t])
        ELSE prev[i]]

\* MarkError that builds the record anew instead of spreading img
MarkError_NoSpread(prev, jobId, data, t) ==
    [i \in DOMAIN prev |->
        IF prev[i].id = jobId
        THEN [id |-> jobId, status |-> "error", error |-> Field(data, "message"),
              completionTime |-> t]
        ELSE prev[i]]

\* prev.map(img => img.id === jobId ? {...img, status: "error", error, completionTime} : img)
MarkError(prev, jobId, data, t) ==
    [i \in DOMAIN prev |->
        IF prev[i].id = jobId
        THEN Spread(prev[i], [status |-> "error", error |-> Field(data, "message"),
                              completionTime |-> t])
        ELSE prev[i]]

IsTerminalReply(reply) ==
    reply.kind = "json" /\ Field(reply.data, "status") \in {"SUCCESS", "ERROR"}

\* Reconcile with a catch block that records the failure on the job
Reconcile_FailureIsError(prev, jobId, reply, t) ==
    IF reply.kind # "json" THEN MarkError(prev, jobId, [message |-> "Failed to fetch results"], t)
    ELSE IF Field(reply.data, "status") = "SUCCESS" THEN MarkComplete(prev, jobId, reply.data, t)
    ELSE IF Field(reply.data, "status") = "ERROR" THEN MarkError(prev, jobId, reply.data, t)
    ELSE prev

\* The store after the reply for jobId has been handled
Reconcile(prev, jobId, reply, t) ==
    IF reply.kind # "json" THEN prev
    ELSE IF Field(reply.data, "status") = "SUCCESS" THEN MarkComplete(prev, jobId, reply.data, t)
    ELSE IF Field(reply.data, "status") = "ERROR" THEN MarkError(prev, jobId, reply.data, t)
    ELSE prev

\* The working set is emptied when a round has completed a job
RemoveCompleted_Clear(prev, completedJobs) == <<>>

\* prev.filter(jobId => !completedJobs.includes(jobId))
RemoveCompleted(prev, completedJobs) ==
    SelectSeqBy(prev, Range(prev) \ Range(completedJobs))

----------------------------------------------------------------------------
(* generateImage and deleteImage *)

NewImage(jobId, p, t) ==
    [id |-> jobId, prompt |-> p, status |-> "loading", startTime |-> t]

\* AddImage that puts the new record at the end of the list
AddImage_AtTail(prev, newImage) == Append(prev, newImage)

\* setImages((prev) => [newImage, ...prev])
AddImage(prev, newImage) == <<newImage>> \o prev

\* setPendingJobs((prev) => [...prev, data["job-id"]])
AddPending(prev, jobId) == Append(prev, jobId)

\* !data["job-id"]
NoJobId(data) == Field(data, "jobId") \in {Undefined, ""}

\* prev.filter(img => img.id !== id)
WithoutId(prev, id) ==
    SelectSeqBy(prev, {img \in Range(prev) : img.id # id})

\* The delete button is rendered only in the branch of a record whose status
\* is neither "loading" nor "error".
Deletable(imgs) ==
    {imgs[i].id : i \in {k \in DOMAIN imgs : imgs[k].status \notin {"loading", "error"}}}

----------------------------------------------------------------------------
(* downloadImage: the name of the downloaded file.  A string is a sequence *)
(* of one-character strings.                                               *)

SliceLen == 30      \* prompt.slice(0, 30)

LowerLetters == {"a", "b", "x"}
UpperLetters == {"A", "B"}
Digits == {"7"}

\* /[^a-z0-9]/gi does not match c
IsAlnum(c) == c \in LowerLetters \cup UpperLetters \cup Digits

\* toLowerCase of one character
LowerChar(c) == IF c = "A" THEN "a" ELSE IF c = "B" THEN "b" ELSE c

\* s.slice(0, n)
Slice(s, n) == SubSeq(s, 1, IF Len(s) < n THEN Len(s) ELSE n)

RECURSIVE StripNonAlnum(_)
\* A replace that removes the characters it matches
StripNonAlnum(s) ==
    IF s = <<>> THEN <<>>
    ELSE IF IsAlnum(Head(s)) THEN <<Head(s)>> \o StripNonAlnum(Tail(s))
         ELSE StripNonAlnum(Tail(s))

\* s.replace(/[^a-z0-9]/gi, '_')
ReplaceNonAlnum(s) == [i \in DOMAIN s |-> IF IsAlnum(s[i]) THEN s[i] ELSE "_"]

\* s.toLowerCase()
ToLowerCase(s) == [i \in DOMAIN s |-> LowerChar(s[i])]

Jpg == <<".", "j", "p", "g">>

\* prompt.slice(0, 30).replace(/[^a-z0-9]/gi, '_').toLowerCase() + '.jpg'
Filename(p) == ToLowerCase(ReplaceNonAlnum(Slice(p, SliceLen))) \o Jpg

\* link: nothing was downloaded, an anchor with its download attribute was
\* clicked, or the catch block raised its alert.
NoLink == [kind |-> "none", download |-> <<>>]
Clicked(name) == [kind |-> "clicked", download |-> name]
DownloadAlert == [kind |-> "alert: Failed to download image", download |-> <<>>]

----------------------------------------------------------------------------
(* Initial state: the page is not loaded yet; the persisted item is absent *)
(* or holds whatever an earlier session or another script left there.      *)

Init ==
    /\ phase = "unloaded"
    /\ images = <<>>
    /\ pendingJobs = <<>>
    /\ storage \in {NoItem, EmptyText, Garbage, NotAList, JSONstringify(<<>>)}
    /\ timers = <<>>
    /\ rounds = EmptyBag
    /\ subs = EmptyBag
    /\ now = 0
    /\ issued = {}
    /\ results = <<>>
    /\ output = NoOutput
    /\ link = NoLink

\* The first render and commit of Home against the persisted item
Mount ==
    /\ pendingJobs' = <<>>
    /\ timers' = PollingEffect(<<>>, <<>>)
    /\ rounds' = EmptyBag
    /\ subs' = EmptyBag
    /\ output' = NoOutput
    /\ link' = NoLink
    /\ UNCHANGED <<now, issued, results>>
    /\ IF StartupThrows(storage)
       THEN /\ phase' = "crashed"
            /\ images' = <<>>
            /\ storage' = storage
       ELSE /\ phase' = "mounted"
            /\ images' = InitialImages(storage)
            /\ storage' = SaveEffect(images')

\* The page is opened
Startup ==
    /\ phase = "unloaded"
    /\ Mount

\* The page is reloaded: everything in flight is dropped with the old document
Reload ==
    /\ phase \in {"mounted", "crashed"}
    /\ Mount

\* Home is unmounted (the user leaves the page): the cleanup of the polling
\* effect runs and the component's state is discarded; callbacks still in
\* flight no longer have a component to update.
Unmount ==
    /\ phase = "mounted"
    /\ phase' = "unloaded"
    /\ images' = <<>>
    /\ pendingJobs' = <<>>
    /\ timers' = EffectCleanup(timers)
    /\ rounds' = EmptyBag
    /\ subs' = EmptyBag
    /\ output' = NoOutput
    /\ link' = NoLink
    /\ UNCHANGED <<storage, now, issued, results>>

\* generateImage up to its first await, with p the text of the input field
GenerateImage(p) ==
    /\ phase = "mounted"
    /\ output' = NoOutput
    /\ IF Trim(p) = <<>>
       THEN UNCHANGED subs
       ELSE /\ BagCardinality(subs) + Cardinality(issued) < MaxJobs
            /\ subs' = subs (+) SetToBag({p})
    /\ UNCHANGED <<phase, images, pendingJobs, storage, timers, rounds, now,
                   issued, results, link>>

\* generateImage from the reply of /api/generate to its end; p is the prompt
\* the call closed over
GenerateReply(p, reply) ==
    /\ phase = "mounted"
    /\ BagIn(p, subs)
    /\ subs' = subs (-) SetToBag({p})
    /\ UNCHANGED <<results, link>>
    /\ IF reply.kind # "json" \/ NoJobId(reply.data)
       THEN /\ output' = GenerateAlert
            /\ UNCHANGED <<phase, images, pendingJobs, storage, timers,
                           rounds, now, issued>>
       ELSE \E t \in now..MaxTime :
            /\ now' = t
            /\ images' = AddImage(images, NewImage(reply.data.jobId, p, t))
            /\ pendingJobs' = AddPending(pendingJobs, reply.data.jobId)
            /\ storage' = SaveEffect(images')
            /\ timers' = PollingEffect(timers, pendingJobs')
            /\ issued' = issued \cup {reply.data.jobId}
            /\ output' = NoOutput
            /\ UNCHANGED <<phase, rounds>>

\* deleteImage(id), from the button of a displayed record
DeleteImage(id) ==
    /\ phase = "mounted"
    /\ id \in Deletable(images)
    /\ images' = WithoutId(images, id)
    /\ storage' = SaveEffect(images')
    /\ output' = NoOutput
    /\ UNCHANGED <<phase, pendingJobs, timers, rounds, subs, now, issued, results, link>>

\* The interval callback from position pos of its loop: it either awaits the
\* next fetch or ends with setPendingJobs.
ContinueRound(rest, pos) ==
    IF pos.jobs # <<>>
    THEN /\ rounds' = rest (+) SetToBag({pos})
         /\ UNCHANGED <<pendingJobs, timers>>
    ELSE /\ rounds' = rest
         /\ IF Len(pos.completedJobs) > 0
            THEN /\ pendingJobs' = RemoveCompleted(pendingJobs, pos.completedJobs)
                 /\ timers' = PollingEffect(timers, pendingJobs')
            ELSE UNCHANGED <<pendingJobs, timers>>

\* Interval k fires: the callback runs up to its first await
Tick(k) ==
    /\ phase = "mounted"
    /\ k \in DOMAIN timers
    /\ BagCardinality(rounds) < MaxRounds
    /\ ContinueRound(rounds, SkipMalformed(timers[k], <<>>))
    /\ output' = NoOutput
    /\ UNCHANGED <<phase, images, storage, subs, now, issued, results, link>>

\* Round rd resumes with the reply to its query and runs to its next await
StatusReply(rd, reply) ==
    /\ phase = "mounted"
    /\ BagIn(rd, rounds)
    /\ output' = IF reply.kind = "json" THEN NoOutput ELSE StatusLog
    /\ results' = IF IsTerminalReply(reply)
                  THEN [j \in DOMAIN results \cup {Head(rd.jobs)} |->
                           IF j = Head(rd.jobs) THEN reply.data ELSE results[j]]
                  ELSE results
    /\ LET jobId == Head(rd.jobs)
           done == IF IsTerminalReply(reply)
                   THEN Append(rd.completedJobs, jobId) ELSE rd.completedJobs
       IN  /\ \E t \in IF IsTerminalReply(reply) THEN now..MaxTime ELSE {now} :
                   /\ now' = t
                   /\ images' = Reconcile(images, jobId, reply, t)
           /\ storage' = IF IsTerminalReply(reply) THEN SaveEffect(images') ELSE storage
           /\ ContinueRound(rounds (-) SetToBag({rd}), SkipMalformed(Tail(rd.jobs), done))
    /\ UNCHANGED <<phase, subs, issued, link>>

Next ==
    \/ Startup
    \/ Reload
    \/ Unmount
    \/ \E p \in PromptInputs : GenerateImage(p)
    \/ \E p \in BagToSet(subs), reply \in GenerateReplies : GenerateReply(p, reply)
    \/ \E id \in StoreIds(images) : DeleteImage(id)
    \/ \E k \in DOMAIN timers : Tick(k)
    \/ \E rd \in BagToSet(rounds) : \E reply \in StatusReplies(Head(rd.jobs)) : StatusReply(rd, reply)

Spec == Init /\ [][Next]_vars

\* generateImage from a reply of /api/generate that carries a job-id the
\* gateway has handed out before (the client has no means to tell).
GenerateReplyRepeat(p, jobId) ==
    /\ jobId \in issued
    /\ Len(images) < MaxJobs
    /\ Len(pendingJobs) < MaxJobs
    /\ GenerateReply(p, Body([jobId |-> jobId]))

NextRepeat ==
    \/ Next
    \/ \E p \in BagToSet(subs), jobId \in issued : GenerateReplyRepeat(p, jobId)

\* The client against a gateway that may hand out a job-id more than once
SpecRepeat == Init /\ [][NextRepeat]_vars

----------------------------------------------------------------------------
(* Properties *)

WellFormed(jobId) == jobId # "" /\ jobId # "undefined"

Loading(img) == img.status = "loading"
Terminal(img) == img.status \in {"complete", "error"}

\* Two records agree on every field of GeneratedImage
SameRecord(a, b) ==
    \A f \in Fields :
        /\ Present(a, f) = Present(b, f)
        /\ Present(a, f) => a[f] = b[f]

\* The same records in the same order
SameStore(s, t) ==
    /\ Len(s) = Len(t)
    /\ \A i \in DOMAIN s : SameRecord(s[i], t[i])

\* The fields a reconciliation writes
SameOutcome(a, b) ==
    \A f \in {"status", "url", "error", "completionTime"} :
        /\ Present(a, f) = Present(b, f)
        /\ Present(a, f) => a[f] = b[f]

\* A step in which a round gets a failed reply (fetch throws, not ok, body
\* unparseable) to its query for jobId
FailedQuery(jobId) ==
    /\ output' = StatusLog
    /\ \E rd \in BagToSet(rounds) :
          /\ Head(rd.jobs) = jobId
          /\ \E k \in FailKinds : StatusReply(rd, Failure(k))

\* A step in which a round gets a parsed body with status SUCCESS or ERROR
\* to its query for jobId
TerminalResponse(jobId) ==
    /\ jobId \in DOMAIN results'
    /\ \E rd \in BagToSet(rounds) :
          /\ Head(rd.jobs) = jobId
          /\ \E d \in TerminalBodies : StatusReply(rd, Body(d))

\* C1: a failed status query for a well-formed id leaves every record as it
\* was, in particular the loading record of that id stays loading with no url,
\* error or completionTime and is never set to error, and the id stays in
\* pendingJobs.
C1_FailedQueryKeepsJobPending ==
    [][\A j \in issued :
          (WellFormed(j) /\ FailedQuery(j)) =>
             /\ Len(images') = Len(images)
             /\ \A i \in DOMAIN images :
                   (images[i].id = j /\ Loading(images[i])) =>
                      /\ images'[i].id = j
                      /\ Loading(images'[i])
                      /\ ~Present(images'[i], "url")
                      /\ ~Present(images'[i], "error")
                      /\ ~Present(images'[i], "completionTime")
                      /\ j \in Range(pendingJobs')]_vars

\* The last turn logged a failed status query; the only well-formed job there
\* is still loading and still in the working set.
C1_Witness ==
    /\ output = StatusLog
    /\ \E i \in DOMAIN images :
          /\ WellFormed(images[i].id)
          /\ Loading(images[i])
          /\ images[i].id \in Range(pendingJobs)
          /\ \A j \in issued : WellFormed(j) => j = images[i].id

\* C2 (as claimed): once a record is complete or error, no later status
\* response for its id changes its status, url, error or completionTime.
C2_TerminalRecordIsFinal ==
    [][\A j \in issued :
          TerminalResponse(j) =>
             \A i \in DOMAIN images :
                (images[i].id = j /\ Terminal(images[i])) =>
                   /\ i \in DOMAIN images'
                   /\ SameOutcome(images'[i], images[i])]_vars

\* C3 (as claimed): a loading record has neither url nor error, a complete
\* record has a url and no error, an error record has an error and no url.
C3_RecordShape ==
    \A i \in DOMAIN images :
        /\ Loading(images[i]) =>
              ~Present(images[i], "url") /\ ~Present(images[i], "error")
        /\ images[i].status = "complete" =>
              Present(images[i], "url") /\ ~Present(images[i], "error")
        /\ images[i].status = "error" =>
              Present(images[i], "error") /\ ~Present(images[i], "url")

\* C4: a SUCCESS or ERROR response for an id that has no record in the store
\* leaves the store as it is, and no step of the mounted page brings back a
\* record whose id was issued and is no longer in the store.
C4_NoResurrection ==
    [][/\ \A j \in issued :
             (j \notin StoreIds(images) /\ TerminalResponse(j)) => images' = images
       /\ phase = "mounted" => (issued \cap StoreIds(images')) \subseteq StoreIds(images)]_vars

\* A round awaits the reply to its query for a job whose record was deleted,
\* while another record is in the store.
C4_Witness ==
    /\ phase = "mounted"
    /\ images # <<>>
    /\ \E rd \in BagToSet(rounds) :
          /\ Head(rd.jobs) \in issued \ StoreIds(images)
          /\ Head(rd.jobs) \in DOMAIN results

\* C5 (as claimed): with effects settled, the polling interval is scheduled
\* exactly when the store holds a loading record.
C5_TimerIffLoading ==
    phase = "mounted" =>
        ((timers # <<>>) <=> (\E i \in DOMAIN images : Loading(images[i])))

\* C6 (as claimed): every loading record with a well-formed id is in the
\* working set, so that it keeps being queried until it is terminal.
C6_LoadingIsInWorkingSet ==
    phase = "mounted" =>
        \A i \in DOMAIN images :
            (Loading(images[i]) /\ WellFormed(images[i].id)) =>
                images[i].id \in Range(pendingJobs)

AllJobIds == Range(WellFormedIds) \cup {"undefined"}

\* Only whitespace, or nothing at all
Blank(p) == \A i \in DOMAIN p : p[i] \in Whitespace

\* A step in which generateImage resumes with an ok response that carries the
\* non-empty job-id jobId, for the prompt p it was called with
Accepted(p, jobId) ==
    BagIn(p, subs) /\ GenerateReply(p, Body([jobId |-> jobId]))

\* A step in which generateImage resumes with a request that threw, a response
\* that is not ok or unparseable, or a body without a job-id
Rejected ==
    \E p \in BagToSet(subs) :
        \/ \E k \in FailKinds : GenerateReply(p, Failure(k))
        \/ \E d \in {[detail |-> "x"], [jobId |-> ""]} : GenerateReply(p, Body(d))

\* C7: an accepted submission adds exactly one record, at the head, with the
\* gateway's id, the submitted prompt, status loading and no url, error or
\* completionTime; it appends the id to pendingJobs and leaves the records
\* that were in the store as they were, in their order.
C7_AcceptedSubmissionAddsRecord ==
    [][\A p \in PromptInputs, j \in AllJobIds :
          Accepted(p, j) =>
             /\ ~Blank(p)
             /\ Len(images') = Len(images) + 1
             /\ Tail(images') = images
             /\ images'[1].id = j
             /\ images'[1].prompt = p
             /\ Loading(images'[1])
             /\ ~Present(images'[1], "url")
             /\ ~Present(images'[1], "error")
             /\ ~Present(images'[1], "completionTime")
             /\ pendingJobs' = Append(pendingJobs, j)]_vars

\* The newest record is loading, its id is the last of pendingJobs, and an
\* older record is behind it.
C7_Witness ==
    /\ phase = "mounted"
    /\ Len(images) >= 2
    /\ Loading(images[1])
    /\ pendingJobs # <<>>
    /\ pendingJobs[Len(pendingJobs)] = images[1].id
    /\ images[2].startTime <= images[1].startTime
    /\ rounds = EmptyBag

\* C8: a rejected submission changes neither the store nor pendingJobs and
\* raises the failure alert; generateImage on an empty or whitespace-only
\* prompt changes neither and sends no request.
C8_FailedSubmissionChangesNothing ==
    [][/\ Rejected =>
             /\ images' = images
             /\ pendingJobs' = pendingJobs
             /\ storage' = storage
             /\ output' = GenerateAlert
       /\ \A p \in PromptInputs :
             (Blank(p) /\ GenerateImage(p)) =>
                /\ images' = images
                /\ pendingJobs' = pendingJobs
                /\ subs' = subs]_vars

\* The last turn raised the failure alert; the store holds a record and
\* nothing is in flight to /api/generate.
C8_Witness ==
    /\ phase = "mounted"
    /\ output = GenerateAlert
    /\ images # <<>>
    /\ pendingJobs # <<>>
    /\ subs = EmptyBag

\* C9 (as claimed): when the persisted item is missing or is not a
\* serialised job list, startup completes with an empty store.
C9_StartupToleratesBadStorage ==
    [][(Startup /\ storage.kind # "array") =>
          (phase' = "mounted" /\ images' = <<>>)]_vars

\* C10: whenever the page is mounted the persisted item is the serialised
\* store and parses back to a store equal to the one in memory, record by
\* record and field by field; a reload restores such a store.
C10_PersistedCopyEqualsStore ==
    /\ [](phase = "mounted" =>
             /\ storage.kind = "array"
             /\ SameStore(JSONparse(storage), images))
    /\ [][(phase = "mounted" /\ Reload) =>
             /\ phase' = "mounted"
             /\ SameStore(images', images)]_vars

\* A store restored by a reload (its loading record is not in the working
\* set) that holds a reconciled record with url and completionTime.
C10_Witness ==
    /\ phase = "mounted"
    /\ pendingJobs = <<>>
    /\ \E i \in DOMAIN images : Loading(images[i]) /\ WellFormed(images[i].id)
    /\ \E i \in DOMAIN images :
          /\ images[i].status = "complete"
          /\ Present(images[i], "url")
          /\ Present(images[i], "completionTime")
    /\ SameStore(JSONparse(storage), images)

----------------------------------------------------------------------------
(* downloadImage, applied to stored records with prompts of many shapes *)

AffixChars == {"a", "B", "7", " "}
Affixes == UNION {[1..n -> AffixChars] : n \in 0..MaxAffix}
Pad(n) == [i \in 1..n |-> "x"]

\* Prompts generateImage accepts: short ones, and ones whose 30th character
\* falls into the head, the padding or the tail.
DownloadPrompts ==
    {p \in {s \o Pad(n) \o t : s \in Affixes, t \in Affixes, n \in {0, SliceLen - 1}} :
        Trim(p) # <<>>}

\* A session in which one job was submitted with prompt p and has completed
InitDownload ==
    /\ phase = "mounted"
    /\ \E p \in DownloadPrompts :
          images = <<Spread(NewImage("j1", p, 0),
                            [status |-> "complete", url |-> "u1", completionTime |-> 0])>>
    /\ pendingJobs = <<>>
    /\ storage = SaveEffect(images)
    /\ timers = <<>>
    /\ rounds = EmptyBag
    /\ subs = EmptyBag
    /\ now = 0
    /\ issued = {"j1"}
    /\ results = [j \in {"j1"} |-> [status |-> "SUCCESS", url |-> "u1"]]
    /\ output = NoOutput
    /\ link = NoLink

\* downloadImage(image.url, image.prompt) from the button of record i; ok
\* tells whether fetch(url) and response.blob() resolved.
DownloadImage(i, ok) ==
    /\ phase = "mounted"
    /\ i \in DOMAIN images
    /\ images[i].status \notin {"loading", "error"}
    /\ link' = IF ok THEN Clicked(Filename(images[i].prompt)) ELSE DownloadAlert
    /\ UNCHANGED <<phase, images, pendingJobs, storage, timers, rounds, subs,
                   now, issued, results, output>>

NextDownload == \E i \in DOMAIN images, ok \in BOOLEAN : DownloadImage(i, ok)

SpecDownload == InitDownload /\ [][NextDownload]_vars

----------------------------------------------------------------------------
(* Properties, continued *)

\* C11 (as claimed): the ids of the records in the store are pairwise
\* distinct, also after a submission that was answered with the id of a record
\* already in the store.
C11_UniqueIds ==
    \A i, k \in DOMAIN images : i # k => images[i].id # images[k].id

\* A step in which a request to /api/results/<jobId> is sent: a run of the
\* interval callback comes to await the reply for jobId.
QueryStarts(jobId) ==
    \E rd \in BagToSet(rounds') :
        /\ Head(rd.jobs) = jobId
        /\ CopiesIn(rd, rounds') > CopiesIn(rd, rounds)

\* C12 (as claimed): once a SUCCESS or ERROR response for an id has been
\* received, no step sends a status query for that id.
C12_NoQueryAfterTerminal ==
    [][\A j \in DOMAIN results : ~QueryStarts(j)]_vars

\* The name as claimed: non-alphanumeric characters removed, then cut to 30
\* characters, lower-cased, '.jpg' appended
ClaimedFilename(p) == ToLowerCase(Slice(StripNonAlnum(p), SliceLen)) \o Jpg

\* C13 (as claimed): the name of a downloaded file is the prompt without its
\* non-alphanumeric characters, cut to 30 characters, lower-cased, plus '.jpg'.
C13_FilenameStripped ==
    link.kind = "clicked" => link.download = ClaimedFilename(images[1].prompt)

\* C13 (amended): the name of a downloaded file has one character for each of
\* the first 30 characters of the prompt, followed by '.jpg': the lower-cased
\* character where the prompt has a letter or digit, '_' where it has anything
\* else.
C13_Filename ==
    link.kind = "clicked" =>
        LET p == images[1].prompt
            n == IF Len(p) < SliceLen THEN Len(p) ELSE SliceLen
        IN  /\ Len(link.download) = n + Len(Jpg)
            /\ SubSeq(link.download, n + 1, n + Len(Jpg)) = Jpg
            /\ \A i \in 1..n :
                  \/ /\ p[i] \in LowerLetters \cup Digits
                     /\ link.download[i] = p[i]
                  \/ /\ p[i] \in UpperLetters
                     /\ link.download[i] \in LowerLetters
                     /\ link.download[i] # p[i]
                  \/ /\ p[i] \notin LowerLetters \cup UpperLetters \cup Digits
                     /\ link.download[i] = "_"

\* A file was downloaded for a prompt longer than 30 characters that has a
\* blank and an upper-case letter among its first 30 and a blank after them.
C13_Witness ==
    /\ link.kind = "clicked"
    /\ Len(images[1].prompt) > SliceLen
    /\ \E i, k \in 1..SliceLen :
          images[1].prompt[i] = " " /\ images[1].prompt[k] = "B"
    /\ \E i \in (SliceLen + 1)..Len(images[1].prompt) : images[1].prompt[i] = " "

\* C14 (as claimed): deleting a record whose id is in pendingJobs takes the id
\* out of pendingJobs, cancels the timer when it was the only id there, and no
\* status query is sent afterwards for an id whose record was deleted.
C14_DeleteLeavesWorkingSet ==
    [][/\ \A id \in Range(pendingJobs) :
             DeleteImage(id) =>
                /\ id \notin Range(pendingJobs')
                /\ (Range(pendingJobs) = {id} => timers' = <<>>)
       /\ \A id \in issued \ StoreIds(images) : ~QueryStarts(id)]_vars

\* A step in which run rd of the interval callback comes to its end
RoundEnds(rd) ==
    /\ BagCardinality(rounds') < BagCardinality(rounds)
    /\ CopiesIn(rd, rounds') < CopiesIn(rd, rounds)

\* C15: no round awaits a query for an empty id or for 'undefined'; a round
\* that has such an id in its list has it out of pendingJobs when it ends (also
\* when it ends at once because every id of its list is such an id); and a
\* record with such an id is loading, without url, error and completionTime, in
\* every state.
C15_MalformedIdIsDropped ==
    /\ [](\A rd \in BagToSet(rounds) : Head(rd.jobs) \notin {"", "undefined"})
    /\ [](\A i \in DOMAIN images :
             (images[i].id = "" \/ images[i].id = "undefined") =>
                /\ Loading(images[i])
                /\ ~Present(images[i], "url")
                /\ ~Present(images[i], "error")
                /\ ~Present(images[i], "completionTime"))
    /\ [][/\ \A rd \in BagToSet(rounds) :
               RoundEnds(rd) =>
                  Range(pendingJobs') \cap (Range(rd.completedJobs) \cup Range(rd.jobs))
                     \cap {"", "undefined"} = {}
          /\ \A k \in DOMAIN timers :
               (Range(timers[k]) \subseteq {"", "undefined"} /\ Tick(k)) =>
                  Range(pendingJobs') \cap Range(timers[k]) = {}]_vars

\* A round has skipped the id 'undefined' and taken it out of pendingJobs while
\* another job is still pending; the record with the id 'undefined' is loading.
C15_Witness ==
    /\ phase = "mounted"
    /\ "undefined" \in issued
    /\ "undefined" \notin Range(pendingJobs)
    /\ pendingJobs # <<>>
    /\ \E i \in DOMAIN images : images[i].id = "undefined" /\ Loading(images[i])

\* The ids run rd is done with when it ends on reply: those it had pushed to
\* completedJobs, the empty or 'undefined' ids left in its list, and the id the
\* reply is for when the reply is a SUCCESS or ERROR body.
DoneWith(rd, reply) ==
    Range(rd.completedJobs)
    \cup (Range(Tail(rd.jobs)) \cap {"", "undefined"})
    \cup (IF reply.kind = "json" /\ Field(reply.data, "status") \in {"SUCCESS", "ERROR"}
          THEN {Head(rd.jobs)} ELSE {})

\* C16: a step in which a round starts or goes on to its next query leaves
\* pendingJobs alone; the step in which a round ends takes out of the current
\* pendingJobs exactly the ids the round is done with (SUCCESS or ERROR
\* received, empty, 'undefined') and keeps every other id, those appended in
\* the meantime included, in order; and a round's completedJobs only holds ids
\* with a SUCCESS or ERROR response or ids that are empty or 'undefined'.
C16_RoundRemovesAtItsEnd ==
    /\ [](\A rd \in BagToSet(rounds) :
             Range(rd.completedJobs) \subseteq DOMAIN results \cup {"", "undefined"})
    /\ [][IF rounds' = rounds
          THEN \/ pendingJobs' = pendingJobs
               \/ \A k \in DOMAIN timers :
                     Tick(k) =>
                        pendingJobs' =
                           SelectSeq(pendingJobs,
                                     LAMBDA j : j \notin Range(timers[k]) \cap {"", "undefined"})
          ELSE IF BagCardinality(rounds') >= BagCardinality(rounds)
          THEN pendingJobs' = pendingJobs
          ELSE \A rd \in BagToSet(rounds) :
                  CopiesIn(rd, rounds') < CopiesIn(rd, rounds) =>
                     \A reply \in StatusReplies(Head(rd.jobs)) :
                        \/ pendingJobs' =
                              SelectSeq(pendingJobs, LAMBDA j : j \notin DoneWith(rd, reply))
                        \/ ~StatusReply(rd, reply)]_vars

\* A round awaits the reply for a job while pendingJobs holds an id that was
\* appended after the round had started.
C16_Witness ==
    /\ phase = "mounted"
    /\ \E rd \in BagToSet(rounds) :
          /\ Head(rd.jobs) \in Range(pendingJobs)
          /\ \E j \in Range(pendingJobs) :
                j \notin Range(rd.jobs) \cup Range(rd.completedJobs)

\* C17: at most one interval is scheduled; none is scheduled while pendingJobs
\* is empty or the component is not mounted; and the one that is scheduled was
\* created for the current pendingJobs, the one for the list before it having
\* been cancelled.
C17_AtMostOneTimer ==
    /\ Len(timers) <= 1
    /\ pendingJobs = <<>> => timers = <<>>
    /\ phase # "mounted" => timers = <<>>
    /\ \A k \in DOMAIN timers : timers[k] = pendingJobs

\* pendingJobs was replaced twice by submissions, so the interval for the
\* one-element list was cancelled, and the interval for the current list is
\* scheduled.
C17_Witness ==
    /\ phase = "mounted"
    /\ Len(pendingJobs) >= 2
    /\ timers = <<pendingJobs>>

\* The records of a store by id and startTime, in the store's order
Keys(s) == [i \in DOMAIN s |-> <<s[i].id, s[i].startTime>>]

\* C18: in every state the records are in non-increasing startTime order from
\* the head; and a step of the mounted page either keeps the records and their
\* order, or puts one record in front of them, or takes the records of one id
\* out and keeps the order of the rest.
C18_NewestFirst ==
    /\ [](\A i, k \in DOMAIN images :
             i < k => images[i].startTime >= images[k].startTime)
    /\ [][(phase = "mounted" /\ phase' = "mounted") =>
             \/ Keys(images') = Keys(images)
             \/ images' # <<>> /\ Tail(Keys(images')) = Keys(images)
             \/ \E id \in StoreIds(images) :
                   Keys(images') = SelectSeq(Keys(images), LAMBDA r : r[1] # id)]_vars

\* Two records whose submissions were answered at different times: the one
\* answered later is at the head.
C18_Witness ==
    /\ phase = "mounted"
    /\ Len(images) >= 2
    /\ images[1].startTime > images[2].startTime
    /\ images[1].id # images[2].id

\* A step of the mounted page after which run rd of the interval callback no
\* longer awaits the reply to its query: the step that handles the reply (or a
\* reload, which drops the run)
HandlesReply(rd) ==
    /\ phase' = "mounted"
    /\ CopiesIn(rd, rounds') < CopiesIn(rd, rounds)

\* C19: the step that handles the reply for job J keeps the number of records,
\* keeps the id, prompt and startTime of every record and keeps every record
\* with another id as it is; while the page is mounted the number of records
\* goes down only in a deleteImage step and up only in the step of an accepted
\* submission.
C19_ReconciliationFrame ==
    [][/\ \/ images' = images
          \/ \A rd \in BagToSet(rounds) :
                HandlesReply(rd) =>
                   /\ Len(images') = Len(images)
                   /\ \A i \in DOMAIN images :
                         /\ \A f \in {"id", "prompt", "startTime"} :
                               Present(images'[i], f) /\ images'[i][f] = images[i][f]
                         /\ images[i].id # Head(rd.jobs) =>
                               SameRecord(images'[i], images[i])
       /\ (phase = "mounted" /\ phase' = "mounted" /\ Len(images') < Len(images)) =>
             \E id \in StoreIds(images) : DeleteImage(id)
       /\ (phase = "mounted" /\ phase' = "mounted" /\ Len(images') > Len(images)) =>
             \E p \in BagToSet(subs), reply \in GenerateReplies :
                /\ reply.kind = "json"
                /\ ~NoJobId(reply.data)
                /\ GenerateReply(p, reply)]_vars

\* A job was reconciled to error while the record of another job is loading.
C19_Witness ==
    /\ phase = "mounted"
    /\ \E i, k \in DOMAIN images :
          /\ images[i].status = "error"
          /\ Present(images[i], "completionTime")
          /\ Present(images[i], "prompt")
          /\ Loading(images[k])

\* A backend call that did not end in an ok response with a JSON body
BackendFailed(b) ==
    b.kind = "unreachable" \/ b.status \notin 200..299 \/ b.parses = FALSE

\* C20: for every way a backend call can end, each proxy route answers: with
\* status 200 and the backend's JSON value when the backend answered ok, with
\* status 500 and a body with the key error otherwise.  The step in which a
\* round gets the proxy's answer to a failed backend call logs the failure,
\* changes no record, and leaves the job's id in pendingJobs.
C20_ProxyFailureIsTransient ==
    /\ [](\A b \in BackendGenerates \cup UNION {BackendResults(j) : j \in issued} :
             \A route \in {ResultsGET(b), GeneratePOST(b)} :
                IF BackendFailed(b)
                THEN route.status = 500 /\ DOMAIN route.body = {"error"}
                ELSE route.status = 200 /\ route.body = b.data)
    /\ [][\A rd \in BagToSet(rounds) :
             CopiesIn(rd, rounds') < CopiesIn(rd, rounds) =>
                \A reply \in {ClientReply(ResultsGET(b)) : b \in BackendFailures} :
                   \/ /\ output' = StatusLog
                      /\ images' = images
                      /\ Head(rd.jobs) \in Range(pendingJobs) =>
                            Head(rd.jobs) \in Range(pendingJobs')
                   \/ ~StatusReply(rd, reply)]_vars

\* The last turn logged a failed status query for a job that is still loading
\* and pending, after the proxy had passed on the SUCCESS body of another job.
C20_Witness ==
    /\ phase = "mounted"
    /\ output = StatusLog
    /\ \E i, k \in DOMAIN images :
          /\ Loading(images[i])
          /\ images[i].id \in Range(pendingJobs)
          /\ images[k].status = "complete"
          /\ Present(images[k], "url")

====
